---- MODULE Spec2Model ----
(***************************************************************************)
(* Model of the SemanticSearch orchestrator (search.py) over its three     *)
(* collaborators: the record store (VictorSession), the vector index       *)
(* (VictorIndexClient) and the embedding adapter (embed.py).               *)
(*                                                                         *)
(* A text is a sequence of symbols: "sp" is a whitespace character, "w" a  *)
(* word, "s" the literal of a special token (a word that the tokenizer     *)
(* maps to a token which decode(skip_special_tokens=True) drops).          *)
(* A collaborator call is one step; each call's outcome (returned value,   *)
(* False, raised exception) is chosen by the environment, in the form the  *)
(* code consumes it: a store write (save, delete) returns True or False,   *)
(* a store read (get, query_eq) returns or raises, an index call returns   *)
(* or raises, the embedding of a passage returns or raises.                *)
(***************************************************************************)
EXTENDS Integers, Sequences, FiniteSets, TLC

\* ------------------------------------------------------------------ bounds
\* longest document text / query, in symbols
MaxTextLen == 2
\* the target_len and overlap TextEmbedding() hands to TextChunker, scaled
\* down from the defaults (256, 40) to the length of the texts above
TargetLen == 1
Overlap == 0
\* identities the record store hands out: 1..MaxId
MaxId == 4
\* largest SearchRequest.limit
MaxLimit == 2
\* the chunker on its own: largest small target_len and overlap arguments,
\* longest text in symbols
ChunkerMaxTarget == 3
ChunkerMaxOverlap == 3
ChunkerMaxLen == 4

\* ------------------------------------------------------------ text, tokens
Symbols == {"sp", "w", "s"}

RECURSIVE TextsOfLen(_)
TextsOfLen(n) ==
    IF n = 0 THEN {<<>>}
    ELSE {Append(t, c) : t \in TextsOfLen(n - 1), c \in Symbols}

Texts == UNION {TextsOfLen(n) : n \in 0..MaxTextLen}
\* search queries: the empty one, a whitespace-only one, one word
Queries == {<<>>, <<"sp">>, <<"w">>}

Min(a, b) == IF a <= b THEN a ELSE b
Max(a, b) == IF a >= b THEN a ELSE b

\* `not text or not text.strip()`
IsBlank(text) == \A i \in 1..Len(text) : text[i] = "sp"

\* tokenizer.encode(text, add_special_tokens=False): whitespace separates
\* tokens and is not itself a token
NotSpace(c) == c # "sp"
encode(text) == SelectSeq(text, NotSpace)

\* tokenizer.decode(window, skip_special_tokens=True): special tokens are
\* dropped, the remaining words are joined by single spaces
IsWord(c) == c = "w"
RECURSIVE Join(_)
Join(words) ==
    IF Len(words) = 0 THEN <<>>
    ELSE IF Len(words) = 1 THEN words
    ELSE <<Head(words), "sp">> \o Join(Tail(words))
decode(window) == Join(SelectSeq(window, IsWord))

\* --------------------------------------------------------------- chunker
model_max == 512
SafetyMargin == 20

\* TextChunker.__init__: the clamped configuration
ClampTargetLen(tl) == Min(tl, model_max - SafetyMargin)
ClampOverlap(tl, ov) == Max(0, Min(ov, ClampTargetLen(tl) - 1))

\* ids[start:start + target_len] with a 0-based start
\* a window one token longer than target_len
Window_too_long(ids, start, tl) == SubSeq(ids, start + 1, Min(start + tl + 1, Len(ids)))
Window(ids, start, tl) == SubSeq(ids, start + 1, Min(start + tl, Len(ids)))

\* the loop `for start in range(0, len(ids), stride)` from offset start on
RECURSIVE Walk(_, _, _, _)
Walk(ids, start, tl, stride) ==
    IF start >= Len(ids) THEN <<>>
    ELSE LET chunk_text == decode(Window(ids, start, tl))
             rest == Walk(ids, start + stride, tl, stride)
         IN  IF ~IsBlank(chunk_text) THEN <<chunk_text>> \o rest ELSE rest

\* the windows `ids[start:start + target_len]` the loop of split visits, each
\* with its start offset
RECURSIVE Windows(_, _, _, _)
Windows(ids, start, tl, stride) ==
    IF start >= Len(ids) THEN <<>>
    ELSE <<[start |-> start, window |-> Window(ids, start, tl)]>>
         \o Windows(ids, start + stride, tl, stride)

\* the windows one split call visits: none on the blank and short-text returns
\* nor when range(0, len(ids), stride) is empty (stride < 0)
split_windows(text, tl, ov) ==
    IF IsBlank(text) \/ Len(encode(text)) <= tl \/ tl - ov <= 0 THEN <<>>
    ELSE Windows(encode(text), 0, tl, tl - ov)

\* range(0, len(ids), stride) raises ValueError for a step of zero
split_raises(text, tl, ov) ==
    ~IsBlank(text) /\ Len(encode(text)) > tl /\ tl - ov = 0

\* split without the `if not text or not text.strip()` guard
split_no_blank_guard(text, tl, ov) ==
    LET ids == encode(text)
    IN  IF Len(ids) <= tl THEN <<text>>
        ELSE Walk(ids, 0, tl, tl - ov)

\* split taking the short-text return only below the target length
split_strict_short(text, tl, ov) ==
    IF IsBlank(text) THEN <<>>
    ELSE LET ids == encode(text)
         IN  IF Len(ids) < tl THEN <<text>>
             ELSE IF tl - ov <= 0 THEN <<>>
             ELSE Walk(ids, 0, tl, tl - ov)

\* TextChunker.split, for a chunker configured with (tl, ov) already clamped;
\* the range of a negative stride is empty (a zero stride: split_raises)
split(text, tl, ov) ==
    IF IsBlank(text) THEN <<>>
    ELSE LET ids == encode(text)
         IN  IF Len(ids) <= tl THEN <<text>>
             ELSE IF tl - ov <= 0 THEN <<>>
             ELSE Walk(ids, 0, tl, tl - ov)

\* ------------------------------------------------------- embedding adapter
\* TextEmbedding.embed_query: [] for a blank query, else one vector.  A vector
\* is kept as its shape only: "empty" is [], "vec" a normalized vector.
embed_query(query) == IF IsBlank(query) THEN "empty" ELSE "vec"

\* TextEmbedding.embed_passage(text) with title=None: one (vector, chunk_text)
\* pair per chunk, in chunk order
embed_passage(text, tl, ov) ==
    LET chunks == split(text, tl, ov)
    IN  [i \in 1..Len(chunks) |-> [vector |-> "vec", text |-> chunks[i]]]

\* ------------------------------------------------------------------ state
VARIABLES
    target_len,   \* TextChunker.target_len (after the clamp)
    overlap,      \* TextChunker.overlap (after the clamp)
    documents,    \* record store: ids of the Document records
    chunks,       \* record store: DocumentChunk records [id, document_id, position]
    index,        \* vector index: ids that have a vector
    next_id,      \* next identity the record store assigns
    ing,          \* the embed_document call in progress / last completed
    del,          \* the delete call in progress / last completed
    srch,         \* the last search call
    retr,         \* the last retrieve call
    chk           \* the TextChunker: constructor arguments, last split call

vars == <<target_len, overlap, documents, chunks, index, next_id, ing, del, srch, retr,
          chk>>

Ids == 1..MaxId

\* contents of store and index, remembered when a call starts
Snapshot == [documents |-> documents, chunks |-> chunks, index |-> index]
NoSnapshot == [documents |-> {}, chunks |-> {}, index |-> {}]

\* one collaborator call as the calls log keeps it: which call, on which
\* input pair / record id, and whether it returned normally
Call(op, k, id, ok) == [op |-> op, k |-> k, id |-> id, ok |-> ok]

IdleIng == [pc |-> "idle", doc |-> 0, text |-> <<>>, raw_chunks |-> <<>>, k |-> 0,
            total_chunks |-> 0, chunk |-> 0, result |-> "none",
            calls |-> <<>>, pre |-> NoSnapshot]
IdleDel == [pc |-> "idle", target |-> 0, chunks |-> <<>>, i |-> 0,
            deleted_chunks |-> 0, result |-> "none",
            calls |-> <<>>, pre |-> NoSnapshot]
IdleSrch == [pc |-> "idle", query |-> <<>>, vector |-> "empty", index_ok |-> TRUE,
             hits |-> <<>>, result |-> "none", results |-> <<>>, total_found |-> 0,
             gets |-> 0]
IdleRetr == [pc |-> "idle", target |-> 0, result |-> "none"]
\* a chunker built from the arguments (tl, ov), no split call made yet
IdleChk(tl, ov) == [pc |-> "idle", target_len_arg |-> tl, overlap_arg |-> ov,
                    text |-> <<>>, chunks |-> <<>>, windows |-> <<>>,
                    result |-> "none"]

Running(op) == op.pc \notin {"idle", "done"}
Idle(op) == op.pc = "idle"
\* no call is in progress and no outcome is waiting for the caller
Quiescent == Idle(ing) /\ Idle(del) /\ Idle(srch) /\ Idle(retr)

\* SemanticSearch.__init__ -> TextEmbedding() -> TextChunker.__init__
Init ==
    /\ target_len = ClampTargetLen(TargetLen)
    /\ overlap = ClampOverlap(TargetLen, Overlap)
    /\ documents = {}
    /\ chunks = {}
    /\ index = {}
    /\ next_id = 1
    /\ ing = IdleIng
    /\ del = IdleDel
    /\ srch = IdleSrch
    /\ retr = IdleRetr
    /\ chk = IdleChk(TargetLen, Overlap)

\* ------------------------------------------------------- embed_document
\* embed_document without the `if not doc.save(...)` return
embed_document_doc_save_unchecked(text, saved) ==
    /\ Idle(ing)
    /\ next_id + Len(split(text, target_len, overlap)) <= MaxId
    /\ documents' = IF saved THEN documents \cup {next_id} ELSE documents
    /\ next_id' = IF saved THEN next_id + 1 ELSE next_id
    /\ ing' = [IdleIng EXCEPT !.pc = "embed", !.doc = IF saved THEN next_id ELSE 0,
                  !.text = text,
                  !.calls = <<Call("doc.save", 0, IF saved THEN next_id ELSE 0, saved)>>,
                  !.pre = Snapshot]
    /\ UNCHANGED <<target_len, overlap, chunks, index, del, srch, retr, chk>>

\* doc = Document(...); doc.save(session).  saved = FALSE: save returned False.
embed_document_doc_save(text, saved) ==
    /\ Idle(ing)
    /\ next_id + Len(split(text, target_len, overlap)) <= MaxId
    /\ IF saved
       THEN /\ documents' = documents \cup {next_id}
            /\ next_id' = next_id + 1
            /\ ing' = [IdleIng EXCEPT !.pc = "embed", !.doc = next_id, !.text = text,
                          !.calls = <<Call("doc.save", 0, next_id, TRUE)>>,
                          !.pre = Snapshot]
       ELSE /\ ing' = [IdleIng EXCEPT !.pc = "done", !.text = text,
                          !.result = "DOCUMENT_SAVE_FAILED",
                          !.calls = <<Call("doc.save", 0, 0, FALSE)>>,
                          !.pre = Snapshot]
            /\ UNCHANGED <<documents, next_id>>
    /\ UNCHANGED <<target_len, overlap, chunks, index, del, srch, retr, chk>>

\* raw_chunks = embed_passage(document.raw_text); `if not raw_chunks`.
\* encoded = FALSE: the embedding model raised, and embed_document has no handler.
embed_document_embed(encoded) ==
    /\ ing.pc = "embed"
    /\ IF ~encoded
       THEN ing' = [ing EXCEPT !.pc = "done", !.result = "RAISED",
                       !.calls = Append(@, Call("embed_passage", 0, 0, FALSE))]
       ELSE LET raw_chunks == embed_passage(ing.text, target_len, overlap)
            IN  IF Len(raw_chunks) = 0
                THEN ing' = [ing EXCEPT !.pc = "done", !.result = "NO_CHUNKS_GENERATED",
                                !.calls = Append(@, Call("embed_passage", 0, 0, TRUE))]
                ELSE ing' = [ing EXCEPT !.pc = "loop", !.raw_chunks = raw_chunks, !.k = 1,
                                !.calls = Append(@, Call("embed_passage", 0, 0, TRUE))]
    /\ UNCHANGED <<target_len, overlap, documents, chunks, index, next_id, del, srch, retr, chk>>

\* embed_document going on to index.insert whatever chunk.save returned
embed_document_chunk_save_unchecked(saved) ==
    /\ ing.pc = "loop"
    /\ ing.k <= Len(ing.raw_chunks)
    /\ IF saved
       THEN /\ chunks' = chunks \cup {[id |-> next_id, document_id |-> ing.doc,
                                       position |-> ing.total_chunks + 1]}
            /\ ing' = [ing EXCEPT !.pc = "insert", !.chunk = next_id,
                          !.calls = Append(@, Call("chunk.save", ing.k, next_id, TRUE))]
       ELSE /\ ing' = [ing EXCEPT !.pc = "insert", !.chunk = next_id,
                          !.calls = Append(@, Call("chunk.save", ing.k, 0, FALSE))]
            /\ UNCHANGED chunks
    /\ next_id' = next_id + 1
    /\ UNCHANGED <<target_len, overlap, documents, index, del, srch, retr, chk>>

\* embed_document giving up on the first chunk that does not persist
embed_document_chunk_save_abort(saved) ==
    /\ ing.pc = "loop"
    /\ ing.k <= Len(ing.raw_chunks)
    /\ IF saved
       THEN /\ chunks' = chunks \cup {[id |-> next_id, document_id |-> ing.doc,
                                       position |-> ing.total_chunks + 1]}
            /\ next_id' = next_id + 1
            /\ ing' = [ing EXCEPT !.pc = "insert", !.chunk = next_id,
                          !.calls = Append(@, Call("chunk.save", ing.k, next_id, TRUE))]
       ELSE /\ ing' = [ing EXCEPT !.pc = "done", !.result = "CHUNK_SAVE_FAILED",
                          !.calls = Append(@, Call("chunk.save", ing.k, 0, FALSE))]
            /\ UNCHANGED <<chunks, next_id>>
    /\ UNCHANGED <<target_len, overlap, documents, index, del, srch, retr, chk>>

\* chunk = DocumentChunk(document_id=doc.id, position=total_chunks + 1);
\* chunk.save(session) for the k-th pair.  saved = FALSE: the pair is skipped.
embed_document_chunk_save(saved) ==
    /\ ing.pc = "loop"
    /\ ing.k <= Len(ing.raw_chunks)
    /\ IF saved
       THEN /\ chunks' = chunks \cup {[id |-> next_id, document_id |-> ing.doc,
                                       position |-> ing.total_chunks + 1]}
            /\ next_id' = next_id + 1
            /\ ing' = [ing EXCEPT !.pc = "insert", !.chunk = next_id,
                          !.calls = Append(@, Call("chunk.save", ing.k, next_id, TRUE))]
       ELSE /\ ing' = [ing EXCEPT !.k = @ + 1,
                          !.calls = Append(@, Call("chunk.save", ing.k, 0, FALSE))]
            /\ UNCHANGED <<chunks, next_id>>
    /\ UNCHANGED <<target_len, overlap, documents, index, del, srch, retr, chk>>

\* embed_document indexing the vector under the document's id
embed_document_index_insert_doc_id(inserted) ==
    /\ ing.pc = "insert"
    /\ IF inserted
       THEN /\ index' = index \cup {ing.doc}
            /\ ing' = [ing EXCEPT !.pc = "loop", !.k = @ + 1, !.total_chunks = @ + 1,
                          !.calls = Append(@, Call("index.insert", ing.k, ing.chunk, TRUE))]
       ELSE /\ ing' = [ing EXCEPT !.pc = "compensate",
                          !.calls = Append(@, Call("index.insert", ing.k, ing.chunk, FALSE))]
            /\ UNCHANGED index
    /\ UNCHANGED <<target_len, overlap, documents, chunks, next_id, del, srch, retr, chk>>

\* self.index.insert(chunk.id, vector); total_chunks += 1.
\* inserted = FALSE: insert raised, control goes to the except branch.
embed_document_index_insert(inserted) ==
    /\ ing.pc = "insert"
    /\ IF inserted
       THEN /\ index' = index \cup {ing.chunk}
            /\ ing' = [ing EXCEPT !.pc = "loop", !.k = @ + 1, !.total_chunks = @ + 1,
                          !.calls = Append(@, Call("index.insert", ing.k, ing.chunk, TRUE))]
       ELSE /\ ing' = [ing EXCEPT !.pc = "compensate",
                          !.calls = Append(@, Call("index.insert", ing.k, ing.chunk, FALSE))]
            /\ UNCHANGED index
    /\ UNCHANGED <<target_len, overlap, documents, chunks, next_id, del, srch, retr, chk>>

\* record store: delete of the DocumentChunk with this id
RemoveChunk(table, id) == {c \in table : c.id # id}

\* the except branch without chunk.delete: the orphaned record is tolerated
embed_document_compensate_tolerate(deleted) ==
    /\ ing.pc = "compensate"
    /\ ing' = [ing EXCEPT !.pc = "loop", !.k = @ + 1,
                  !.calls = Append(@, Call("chunk.delete", ing.k, ing.chunk, deleted))]
    /\ UNCHANGED <<target_len, overlap, documents, chunks, index, next_id, del, srch, retr, chk>>

\* except Exception: chunk.delete(session).  deleted = FALSE: delete returned False.
embed_document_compensate(deleted) ==
    /\ ing.pc = "compensate"
    /\ chunks' = IF deleted THEN RemoveChunk(chunks, ing.chunk) ELSE chunks
    /\ ing' = [ing EXCEPT !.pc = "loop", !.k = @ + 1,
                  !.calls = Append(@, Call("chunk.delete", ing.k, ing.chunk, deleted))]
    /\ UNCHANGED <<target_len, overlap, documents, index, next_id, del, srch, retr, chk>>

\* the loop is exhausted: return SuccessResponse(success=True, ...)
embed_document_return ==
    /\ ing.pc = "loop"
    /\ ing.k > Len(ing.raw_chunks)
    /\ ing' = [ing EXCEPT !.pc = "done", !.result = "SUCCESS"]
    /\ UNCHANGED <<target_len, overlap, documents, chunks, index, next_id, del, srch, retr, chk>>

\* ---------------------------------------------------------------- delete
\* DocumentChunk.query_eq(session, "document_id", document_id): the matching
\* records, listed by ascending id
RECURSIVE ById(_)
ById(set) ==
    IF set = {} THEN <<>>
    ELSE LET first == CHOOSE c \in set : \A d \in set : c.id <= d.id
         IN  <<first>> \o ById(set \ {first})
\* a query that stops at the first matching record
query_eq_first(table, document_id) ==
    LET all == ById({c \in table : c.document_id = document_id})
    IN  IF Len(all) = 0 THEN <<>> ELSE <<Head(all)>>
\* a query that ignores the value it is asked to match
query_eq_all(table, document_id) == ById(table)
\* DocumentChunk.query_eq(session, "document_id", document_id)
query_eq(table, document_id) == ById({c \in table : c.document_id = document_id})

\* delete without the `if not doc` return
delete_get_unchecked(document_id, read) ==
    /\ Idle(del)
    /\ LET started == [IdleDel EXCEPT !.target = document_id, !.pre = Snapshot,
                          !.calls = <<Call("doc.get", 0, document_id, read)>>]
       IN  IF ~read
           THEN del' = [started EXCEPT !.pc = "done", !.result = "DELETE_FAILED"]
           ELSE del' = [started EXCEPT !.pc = "query"]
    /\ UNCHANGED <<target_len, overlap, documents, chunks, index, next_id, ing, srch, retr, chk>>

\* doc = Document.get(session, document_id); `if not doc`.
\* read = FALSE: the store read raised, the outer handler answers DELETE_FAILED.
delete_get(document_id, read) ==
    /\ Idle(del)
    /\ LET started == [IdleDel EXCEPT !.target = document_id, !.pre = Snapshot,
                          !.calls = <<Call("doc.get", 0, document_id, read)>>]
       IN  IF ~read
           THEN del' = [started EXCEPT !.pc = "done", !.result = "DELETE_FAILED"]
           ELSE IF document_id \notin documents
           THEN del' = [started EXCEPT !.pc = "done", !.result = "DOCUMENT_NOT_FOUND"]
           ELSE del' = [started EXCEPT !.pc = "query"]
    /\ UNCHANGED <<target_len, overlap, documents, chunks, index, next_id, ing, srch, retr, chk>>

\* delete removing the Document record before its chunks
delete_query_document_first(read) ==
    /\ del.pc = "query"
    /\ IF ~read
       THEN /\ del' = [del EXCEPT !.pc = "done", !.result = "DELETE_FAILED",
                          !.calls = Append(@, Call("chunk.query_eq", 0, del.target, FALSE))]
            /\ UNCHANGED documents
       ELSE LET found == query_eq(chunks, del.target)
            IN  /\ del' = [del EXCEPT !.chunks = found, !.i = 1,
                              !.pc = IF Len(found) = 0 THEN "doc_delete" ELSE "index_delete",
                              !.calls = Append(@, Call("chunk.query_eq", 0, del.target, TRUE))]
                /\ documents' = documents \ {del.target}
    /\ UNCHANGED <<target_len, overlap, chunks, index, next_id, ing, srch, retr, chk>>

\* chunks = DocumentChunk.query_eq(...); deleted_chunks = 0.
\* read = FALSE: the query raised.
delete_query(read) ==
    /\ del.pc = "query"
    /\ IF ~read
       THEN del' = [del EXCEPT !.pc = "done", !.result = "DELETE_FAILED",
                       !.calls = Append(@, Call("chunk.query_eq", 0, del.target, FALSE))]
       ELSE LET found == query_eq(chunks, del.target)
            IN  del' = [del EXCEPT !.chunks = found, !.i = 1,
                           !.pc = IF Len(found) = 0 THEN "doc_delete" ELSE "index_delete",
                           !.calls = Append(@, Call("chunk.query_eq", 0, del.target, TRUE))]
    /\ UNCHANGED <<target_len, overlap, documents, chunks, index, next_id, ing, srch, retr, chk>>

\* delete passing over the record of a chunk whose index delete raised
delete_index_delete_skip_record(removed) ==
    /\ del.pc = "index_delete"
    /\ LET chunk == del.chunks[del.i]
       IN  /\ index' = IF removed THEN index \ {chunk.id} ELSE index
           /\ del' = [del EXCEPT !.pc = IF removed THEN "chunk_delete"
                                        ELSE IF del.i < Len(del.chunks) THEN "index_delete"
                                        ELSE "doc_delete",
                         !.i = IF removed THEN @ ELSE @ + 1,
                         !.calls = Append(@, Call("index.delete", del.i, chunk.id, removed))]
    /\ UNCHANGED <<target_len, overlap, documents, chunks, next_id, ing, srch, retr, chk>>

\* index.delete outside its try: a raise reaches the outer handler
delete_index_delete_unguarded(removed) ==
    /\ del.pc = "index_delete"
    /\ LET chunk == del.chunks[del.i]
       IN  /\ index' = IF removed THEN index \ {chunk.id} ELSE index
           /\ del' = [del EXCEPT !.pc = IF removed THEN "chunk_delete" ELSE "done",
                         !.result = IF removed THEN @ ELSE "DELETE_FAILED",
                         !.calls = Append(@, Call("index.delete", del.i, chunk.id, removed))]
    /\ UNCHANGED <<target_len, overlap, documents, chunks, next_id, ing, srch, retr, chk>>

\* try: self.index.delete(chunk.id) except: print warning.
\* removed = FALSE: index.delete raised and the entry stays.
delete_index_delete(removed) ==
    /\ del.pc = "index_delete"
    /\ LET chunk == del.chunks[del.i]
       IN  /\ index' = IF removed THEN index \ {chunk.id} ELSE index
           /\ del' = [del EXCEPT !.pc = "chunk_delete",
                         !.calls = Append(@, Call("index.delete", del.i, chunk.id, removed))]
    /\ UNCHANGED <<target_len, overlap, documents, chunks, next_id, ing, srch, retr, chk>>

\* delete giving up on the first chunk record that is not deleted
delete_chunk_delete_abort(deleted) ==
    /\ del.pc = "chunk_delete"
    /\ LET chunk == del.chunks[del.i]
       IN  /\ chunks' = IF deleted THEN RemoveChunk(chunks, chunk.id) ELSE chunks
           /\ del' = [del EXCEPT !.i = @ + 1,
                         !.deleted_chunks = IF deleted THEN @ + 1 ELSE @,
                         !.pc = IF ~deleted THEN "done"
                                ELSE IF del.i < Len(del.chunks) THEN "index_delete"
                                ELSE "doc_delete",
                         !.result = IF deleted THEN @ ELSE "DELETE_FAILED",
                         !.calls = Append(@, Call("chunk.delete", del.i, chunk.id, deleted))]
    /\ UNCHANGED <<target_len, overlap, documents, index, next_id, ing, srch, retr, chk>>

\* if chunk.delete(session): deleted_chunks += 1; then the next chunk, or on
\* to the document.  deleted = FALSE: delete returned False.
delete_chunk_delete(deleted) ==
    /\ del.pc = "chunk_delete"
    /\ LET chunk == del.chunks[del.i]
       IN  /\ chunks' = IF deleted THEN RemoveChunk(chunks, chunk.id) ELSE chunks
           /\ del' = [del EXCEPT !.i = @ + 1,
                         !.deleted_chunks = IF deleted THEN @ + 1 ELSE @,
                         !.pc = IF del.i < Len(del.chunks) THEN "index_delete"
                                ELSE "doc_delete",
                         !.calls = Append(@, Call("chunk.delete", del.i, chunk.id, deleted))]
    /\ UNCHANGED <<target_len, overlap, documents, index, next_id, ing, srch, retr, chk>>

\* if doc.delete(session): SuccessResponse else ErrorDetail(DELETE_FAILED)
delete_doc_delete(deleted) ==
    /\ del.pc = "doc_delete"
    /\ documents' = IF deleted THEN documents \ {del.target} ELSE documents
    /\ del' = [del EXCEPT !.pc = "done",
                  !.result = IF deleted THEN "SUCCESS" ELSE "DELETE_FAILED",
                  !.calls = Append(@, Call("doc.delete", 0, del.target, deleted))]
    /\ UNCHANGED <<target_len, overlap, chunks, index, next_id, ing, srch, retr, chk>>

\* -------------------------------------------------------------- retrieve
\* doc = Document.get(session, document_id).  read = FALSE: the read raised.
retrieve(document_id, read) ==
    /\ Idle(retr)
    /\ retr' = [pc |-> "done", target |-> document_id,
                result |-> IF ~read THEN "RETRIEVE_FAILED"
                           ELSE IF document_id \notin documents THEN "DOCUMENT_NOT_FOUND"
                           ELSE "FOUND"]
    /\ UNCHANGED <<target_len, overlap, documents, chunks, index, next_id, ing, del, srch, chk>>

\* ---------------------------------------------------------------- search
\* what index.search(vector, limit) can return: at most `limit` distinct ids
\* of the index, nearest first (the order depends on the vectors)
RECURSIVE Rankings(_, _)
Rankings(ids, n) ==
    IF n = 0 THEN {<<>>}
    ELSE LET shorter == Rankings(ids, n - 1)
         IN  shorter \cup {Append(r, id) : r \in {q \in shorter : Len(q) = n - 1},
                                           id \in ids}
HitLists(ids, limit) ==
    {r \in Rankings(ids, Min(limit, Cardinality(ids))) :
        \A a, b \in 1..Len(r) : a # b => r[a] # r[b]}

\* DocumentChunk.get(session, chunk_id): the record, or None
HasChunk(table, id) == \E c \in table : c.id = id
GetChunk(table, id) == CHOOSE c \in table : c.id = id

\* the loop leaving at the first hit that has no record
RECURSIVE Elements_stop_at_missing(_, _)
Elements_stop_at_missing(table, hits) ==
    IF Len(hits) = 0 THEN <<>>
    ELSE IF HasChunk(table, Head(hits))
         THEN <<GetChunk(table, Head(hits))>> \o Elements_stop_at_missing(table, Tail(hits))
         ELSE <<>>

\* the loop `for chunk_id, distance in results`: one ChunkWithScore per hit
\* that resolves to a record, in hit order
RECURSIVE Elements(_, _)
Elements(table, hits) ==
    IF Len(hits) = 0 THEN <<>>
    ELSE LET rest == Elements(table, Tail(hits))
         IN  IF HasChunk(table, Head(hits))
             THEN <<GetChunk(table, Head(hits))>> \o rest
             ELSE rest

\* search answering an index failure with an empty result list
search_swallow(query, limit, found, hits, raise_at) ==
    /\ Idle(srch)
    /\ LET vector == embed_query(query)
           called == [IdleSrch EXCEPT !.pc = "done", !.query = query,
                                      !.vector = vector, !.index_ok = found]
       IN  IF ~found
           THEN srch' = [called EXCEPT !.result = "OK"]
           ELSE IF raise_at > 0
           THEN srch' = [called EXCEPT !.result = "RAISED", !.gets = raise_at]
           ELSE LET elements == Elements(chunks, hits)
                IN  srch' = [called EXCEPT !.result = "OK", !.hits = hits,
                                           !.gets = Len(hits),
                                           !.results = elements,
                                           !.total_found = Len(elements)]
    /\ UNCHANGED <<target_len, overlap, documents, chunks, index, next_id, ing, del, retr, chk>>

\* SemanticSearch.search.  found = FALSE: index.search raised (SEARCH_FAILED).
\* raise_at = n > 0: the store read for the n-th hit raised; the loop has no
\* handler and the exception leaves search.
search(query, limit, found, hits, raise_at) ==
    /\ Idle(srch)
    /\ LET vector == embed_query(query)
           called == [IdleSrch EXCEPT !.pc = "done", !.query = query,
                                      !.vector = vector, !.index_ok = found]
       IN  IF ~found
           THEN srch' = [called EXCEPT !.result = "SEARCH_FAILED"]
           ELSE IF raise_at > 0
           THEN srch' = [called EXCEPT !.result = "RAISED", !.gets = raise_at]
           ELSE LET elements == Elements(chunks, hits)
                IN  srch' = [called EXCEPT !.result = "OK", !.hits = hits,
                                           !.gets = Len(hits),
                                           !.results = elements,
                                           !.total_found = Len(elements)]
    /\ UNCHANGED <<target_len, overlap, documents, chunks, index, next_id, ing, del, retr, chk>>

\* ------------------------------------------------------------- the caller
\* SemanticSearch keeps nothing of a call once it has returned (its fields are
\* the session, the index and the embedding adapter): the outcomes of the
\* completed calls leave with the caller.
call_returns ==
    /\ ~Running(ing) /\ ~Running(del)
    /\ ~Quiescent
    /\ ing' = IdleIng
    /\ del' = IdleDel
    /\ srch' = IdleSrch
    /\ retr' = IdleRetr
    /\ UNCHANGED <<target_len, overlap, documents, chunks, index, next_id, chk>>

\* ----------------------------------------------------------- specification
\* The calls of one SemanticSearch, issued one after the other
Next ==
    \/ \E text \in Texts, saved \in BOOLEAN :
          Quiescent /\ embed_document_doc_save(text, saved)
    \/ \E encoded \in BOOLEAN : embed_document_embed(encoded)
    \/ \E saved \in BOOLEAN : embed_document_chunk_save(saved)
    \/ \E inserted \in BOOLEAN : embed_document_index_insert(inserted)
    \/ \E deleted \in BOOLEAN : embed_document_compensate(deleted)
    \/ embed_document_return
    \/ \E document_id \in Ids, read \in BOOLEAN :
          Quiescent /\ delete_get(document_id, read)
    \/ \E read \in BOOLEAN : delete_query(read)
    \/ \E removed \in BOOLEAN : delete_index_delete(removed)
    \/ \E deleted \in BOOLEAN : delete_chunk_delete(deleted)
    \/ \E deleted \in BOOLEAN : delete_doc_delete(deleted)
    \/ \E document_id \in Ids, read \in BOOLEAN :
          \/ Quiescent /\ retrieve(document_id, read)
          \* a retrieve that directly follows a completed delete
          \/ /\ Idle(ing) /\ Idle(srch) /\ del.pc = "done"
             /\ document_id = del.target
             /\ retrieve(document_id, read)
    \/ \E query \in Queries, limit \in 1..MaxLimit, found \in BOOLEAN :
          \E hits \in IF found THEN HitLists(index, limit) ELSE {<<>>} :
              \E raise_at \in 0..Len(hits) :
                  Quiescent /\ search(query, limit, found, hits, raise_at)
    \/ call_returns

Spec == Init /\ [][Next]_vars

\* --------------------------------------- one ingest and one delete at once
\* An embed_document call and a delete call issued by two callers of the same
\* SemanticSearch: the class holds no lock, so their collaborator calls
\* interleave in every order.  Each starts whenever it is not itself under way.
NextConcurrent ==
    \/ \E text \in Texts, saved \in BOOLEAN : embed_document_doc_save(text, saved)
    \/ \E encoded \in BOOLEAN : embed_document_embed(encoded)
    \/ \E saved \in BOOLEAN : embed_document_chunk_save(saved)
    \/ \E inserted \in BOOLEAN : embed_document_index_insert(inserted)
    \/ \E deleted \in BOOLEAN : embed_document_compensate(deleted)
    \/ embed_document_return
    \/ \E document_id \in Ids, read \in BOOLEAN : delete_get(document_id, read)
    \/ \E read \in BOOLEAN : delete_query(read)
    \/ \E removed \in BOOLEAN : delete_index_delete(removed)
    \/ \E deleted \in BOOLEAN : delete_chunk_delete(deleted)
    \/ \E deleted \in BOOLEAN : delete_doc_delete(deleted)
    \/ call_returns

SpecConcurrent == Init /\ [][NextConcurrent]_vars

\* ------------------------------------------- a delete right after an ingest
\* One caller issuing embed_document and delete calls one after the other,
\* where a delete may also directly follow a returned embed_document (the
\* caller still holds that call's outcome, and the id the store assigned).
NextIngestDelete ==
    \/ \E text \in Texts, saved \in BOOLEAN :
          Quiescent /\ embed_document_doc_save(text, saved)
    \/ \E encoded \in BOOLEAN : embed_document_embed(encoded)
    \/ \E saved \in BOOLEAN : embed_document_chunk_save(saved)
    \/ \E inserted \in BOOLEAN : embed_document_index_insert(inserted)
    \/ \E deleted \in BOOLEAN : embed_document_compensate(deleted)
    \/ embed_document_return
    \/ \E document_id \in Ids, read \in BOOLEAN :
          ~Running(ing) /\ delete_get(document_id, read)
    \/ \E read \in BOOLEAN : delete_query(read)
    \/ \E removed \in BOOLEAN : delete_index_delete(removed)
    \/ \E deleted \in BOOLEAN : delete_chunk_delete(deleted)
    \/ \E deleted \in BOOLEAN : delete_doc_delete(deleted)
    \/ call_returns

SpecIngestDelete == Init /\ [][NextIngestDelete]_vars

\* arguments TextChunker(target_len=..., overlap=...) is constructed with:
\* non-positive, small, and beyond the model's cap
TargetLenArgs == ((0 - 1)..ChunkerMaxTarget) \cup {model_max}
OverlapArgs == (0 - 1)..ChunkerMaxOverlap
ChunkerTexts == UNION {TextsOfLen(n) : n \in 0..ChunkerMaxLen}

\* TextChunker.__init__ for any pair of arguments; the service is not used
InitChunker ==
    /\ \E tl \in TargetLenArgs, ov \in OverlapArgs :
          /\ target_len = ClampTargetLen(tl)
          /\ overlap = ClampOverlap(tl, ov)
          /\ chk = IdleChk(tl, ov)
    /\ documents = {}
    /\ chunks = {}
    /\ index = {}
    /\ next_id = 1
    /\ ing = IdleIng
    /\ del = IdleDel
    /\ srch = IdleSrch
    /\ retr = IdleRetr

\* one call TextChunker.split(text)
chunker_split ==
    /\ chk.pc = "idle"
    /\ \E text \in ChunkerTexts :
          chk' = [chk EXCEPT
                    !.pc = "done",
                    !.text = text,
                    !.result = IF split_raises(text, target_len, overlap)
                               THEN "RAISED" ELSE "OK",
                    !.chunks = IF split_raises(text, target_len, overlap)
                               THEN <<>> ELSE split(text, target_len, overlap),
                    !.windows = IF split_raises(text, target_len, overlap)
                                THEN <<>>
                                ELSE split_windows(text, target_len, overlap)]
    /\ UNCHANGED <<target_len, overlap, documents, chunks, index, next_id,
                   ing, del, srch, retr>>

\* the caller takes the list; the chunker keeps its configuration
chunker_returns ==
    /\ chk.pc = "done"
    /\ chk' = IdleChk(chk.target_len_arg, chk.overlap_arg)
    /\ UNCHANGED <<target_len, overlap, documents, chunks, index, next_id,
                   ing, del, srch, retr>>

NextChunker == chunker_split \/ chunker_returns

SpecChunker == InitChunker /\ [][NextChunker]_vars

\* ------------------------------------------------------------ properties
\* what a completed embed_document added to store and index
NewDocuments == documents \ ing.pre.documents
NewChunks == chunks \ ing.pre.chunks
NewEntries == index \ ing.pre.index
\* nothing that was there before the call is gone
IngestKeeps ==
    /\ ing.pre.documents \subseteq documents
    /\ ing.pre.chunks \subseteq chunks
    /\ ing.pre.index \subseteq index
ChunkIds(set) == {c.id : c \in set}
\* positions in a calls log of the calls that did not return normally
Failures(calls) == {i \in DOMAIN calls : ~calls[i].ok}
CallsOf(calls, op, k) == {i \in DOMAIN calls : calls[i].op = op /\ calls[i].k = k}

\* C1: when every store, index and embedding call of an ingest succeeds and the
\* text yields N >= 1 chunks, the call leaves exactly one new Document, exactly
\* N new Chunk records that all reference it, and exactly N new index entries
\* whose ids are the ids of those Chunk records.
C1_IngestAllOk ==
    (ing.pc = "done" /\ Failures(ing.calls) = {} /\ Len(ing.raw_chunks) >= 1)
    => /\ NewDocuments = {ing.doc}
       /\ ing.doc \notin ing.pre.documents
       /\ Cardinality(NewChunks) = Len(ing.raw_chunks)
       /\ \A c \in NewChunks : c.document_id = ing.doc
       /\ Cardinality(ChunkIds(NewChunks)) = Len(ing.raw_chunks)
       /\ NewEntries = ChunkIds(NewChunks)
       /\ IngestKeeps
C1_Witness ==
    /\ ing.pc = "done" /\ Failures(ing.calls) = {}
    /\ Len(ing.raw_chunks) = 2
    /\ Cardinality(NewEntries) = 2
    /\ ing.pre.documents # {}

\* the ingest's only failed call is one index insert
OneInsertFailed ==
    /\ Cardinality(Failures(ing.calls)) = 1
    /\ \A i \in Failures(ing.calls) : ing.calls[i].op = "index.insert"

\* C2: if the index insert fails for exactly one of the N chunks and every
\* other call succeeds, then after ingest returns the store holds N-1 Chunk
\* records of the document, the index N-1 new entries, and their ids coincide.
C2_OneInsertFails ==
    (ing.pc = "done" /\ OneInsertFailed)
    => /\ Cardinality(NewChunks) = Len(ing.raw_chunks) - 1
       /\ \A c \in NewChunks : c.document_id = ing.doc
       /\ {c \in chunks : c.document_id = ing.doc} = NewChunks
       /\ Cardinality(NewEntries) = Len(ing.raw_chunks) - 1
       /\ NewEntries = ChunkIds(NewChunks)
       /\ IngestKeeps
C2_Witness ==
    /\ ing.pc = "done" /\ OneInsertFailed
    /\ Len(ing.raw_chunks) = 2
    /\ Cardinality(NewChunks) = 1
    /\ \E i \in DOMAIN ing.calls : ing.calls[i].op = "chunk.delete" /\ ing.calls[i].ok

\* chunks of the ingested document that are in the store and in the index
Surviving == {c \in chunks : c.document_id = ing.doc /\ c.id \in index}

\* C3: ingest reports success only if at least one chunk was both persisted
\* and indexed; with zero surviving chunks it reports failure.
C3_SuccessNeedsChunk ==
    (ing.pc = "done" /\ ing.result = "SUCCESS") => Surviving # {}

\* the parent documents of a result list, in result order
DocumentIds(results) == [i \in DOMAIN results |-> results[i].document_id]
NoRepeat(seq) == \A a, b \in DOMAIN seq : a # b => seq[a] # seq[b]

\* C4: search returns each parent document at most once, in the order of the
\* documents' nearest chunks.
C4_OncePerDocument ==
    (srch.pc = "done" /\ srch.result = "OK") => NoRepeat(DocumentIds(srch.results))

\* the Chunk records of the delete's target when the delete started
TargetChunks == {c \in del.pre.chunks : c.document_id = del.target}
DeleteSucceeded == del.pc = "done" /\ del.result = "SUCCESS"
DeleteClean ==
    /\ \A c \in chunks : c.document_id # del.target
    /\ \A c \in TargetChunks : c.id \notin index
\* a retrieve of the deleted id, issued after the delete returned, whose store
\* read returned
RetrieveAfterDelete ==
    retr.pc = "done" /\ retr.target = del.target /\ retr.result # "RETRIEVE_FAILED"

DeleteOfMissing ==
    /\ del.pc = "done"
    /\ del.calls[1].ok
    /\ del.target \notin del.pre.documents

\* C6: delete of an id with no Document record reports DOCUMENT_NOT_FOUND and
\* leaves store and index unchanged: after the lookup no further call is
\* issued, even if Chunk records carrying that document_id exist.
C6_DeleteMissing ==
    DeleteOfMissing
    => /\ del.result = "DOCUMENT_NOT_FOUND"
       /\ Len(del.calls) = 1
       /\ documents = del.pre.documents
       /\ chunks = del.pre.chunks
       /\ index = del.pre.index
C6_Witness ==
    /\ DeleteOfMissing
    /\ del.result = "DOCUMENT_NOT_FOUND"
    /\ \E c \in chunks : c.document_id = del.target /\ c.id \in index

\* C7: if persisting the Document fails, ingest returns a failure at once: no
\* call follows the save (no embedding, no chunk save, no index insert) and
\* store and index are unchanged.
C7_DocumentSaveFails ==
    (ing.pc # "idle" /\ ~ing.calls[1].ok)
    => /\ ing.pc = "done"
       /\ ing.result = "DOCUMENT_SAVE_FAILED"
       /\ Len(ing.calls) = 1
       /\ documents = ing.pre.documents
       /\ chunks = ing.pre.chunks
       /\ index = ing.pre.index
C7_Witness ==
    /\ ing.pc = "done" /\ ~ing.calls[1].ok
    /\ ing.result = "DOCUMENT_SAVE_FAILED"
    /\ ~IsBlank(ing.text)
    /\ documents # {}

\* the ingest saved its Document and the embedding call returned
Embedded ==
    /\ Len(ing.calls) >= 2
    /\ ing.calls[1].ok
    /\ ing.calls[2].ok

\* C8: if the document's text is empty or whitespace-only, ingest reports the
\* no-content failure, creates no Chunk record and no index entry, and the
\* Document record it saved stays in the store.
C8_BlankText ==
    (ing.pc # "idle" /\ Embedded /\ IsBlank(ing.text))
    => /\ ing.pc = "done"
       /\ ing.result = "NO_CHUNKS_GENERATED"
       /\ Len(ing.calls) = 2
       /\ chunks = ing.pre.chunks
       /\ index = ing.pre.index
       /\ documents = ing.pre.documents \cup {ing.doc}
       /\ ing.doc \notin ing.pre.documents
C8_Witness ==
    /\ ing.pc = "done" /\ Embedded
    /\ Len(ing.text) = 2 /\ IsBlank(ing.text)
    /\ ing.result = "NO_CHUNKS_GENERATED"
    /\ ing.doc \in documents

\* the k-th pair's chunk.save / index.insert returned normally
SavedOk(k) == \E i \in CallsOf(ing.calls, "chunk.save", k) : ing.calls[i].ok
InsertedOk(k) == \E i \in CallsOf(ing.calls, "index.insert", k) : ing.calls[i].ok

\* C9: when persisting one chunk fails, that chunk is not retried and no index
\* insert is issued for it, every pair is still attempted once, in input
\* order, and a sibling whose save and insert succeed is in store and index.
C9_ChunkFailureIsLocal ==
    (ing.pc = "done" /\ Len(ing.raw_chunks) >= 1)
    => /\ \A k \in 1..Len(ing.raw_chunks) :
             /\ Cardinality(CallsOf(ing.calls, "chunk.save", k)) = 1
             /\ ~SavedOk(k) => CallsOf(ing.calls, "index.insert", k) = {}
             /\ (SavedOk(k) /\ InsertedOk(k))
                   => \E i \in CallsOf(ing.calls, "index.insert", k) :
                         /\ ing.calls[i].id \in index
                         /\ \E c \in chunks : /\ c.id = ing.calls[i].id
                                              /\ c.document_id = ing.doc
       /\ \A i, j \in DOMAIN ing.calls :
             (i < j /\ ing.calls[i].op = "chunk.save" /\ ing.calls[j].op = "chunk.save")
                => ing.calls[i].k < ing.calls[j].k
C9_Witness ==
    /\ ing.pc = "done" /\ Len(ing.raw_chunks) = 2
    /\ ~SavedOk(1)
    /\ SavedOk(2) /\ InsertedOk(2)
    /\ Cardinality(Surviving) = 1

\* C10: search with an empty or whitespace-only query returns a defined empty
\* result set and not an error outcome, whatever the index does with the
\* empty vector.
C10_BlankQuery ==
    (srch.pc = "done" /\ IsBlank(srch.query))
    => /\ srch.result = "OK"
       /\ srch.results = <<>>
       /\ srch.total_found = 0

\* C11: if the index search call fails, search returns a single failed
\* outcome that carries no results at all, and the record store is not read.
C11_IndexSearchFails ==
    (srch.pc = "done" /\ ~srch.index_ok)
    => /\ srch.result = "SEARCH_FAILED"
       /\ srch.results = <<>>
       /\ srch.total_found = 0
       /\ srch.gets = 0
C11_Witness ==
    /\ srch.pc = "done" /\ ~srch.index_ok
    /\ srch.result = "SEARCH_FAILED"
    /\ ~IsBlank(srch.query)
    /\ \E c \in chunks : c.id \in index

\* the ids of the hits that have a Chunk record in the store, in hit order
Resolvable(hits) ==
    LET InStore(id) == id \in ChunkIds(chunks)
    IN  SelectSeq(hits, InStore)

\* C12: for every hit list the index returns (and no store read raising), the
\* result holds exactly the hits that resolve to a Chunk record, in the
\* index's order; hits without a record are skipped without an error, and the
\* reported total is the number of items returned.
C12_ResolveOrSkip ==
    (srch.pc = "done" /\ srch.index_ok /\ srch.result # "RAISED")
    => /\ srch.result = "OK"
       /\ [i \in DOMAIN srch.results |-> srch.results[i].id] = Resolvable(srch.hits)
       /\ \A i \in DOMAIN srch.results : srch.results[i] \in chunks
       /\ srch.total_found = Len(srch.results)
       /\ srch.gets = Len(srch.hits)
C12_Witness ==
    /\ srch.pc = "done" /\ srch.result = "OK"
    /\ Len(srch.hits) = 2
    /\ srch.hits[1] \notin ChunkIds(chunks)
    /\ srch.total_found = 1

\* the delete found its Document and enumerated the chunks
Enumerated ==
    /\ Len(del.calls) >= 2
    /\ del.calls[1].ok
    /\ del.calls[2].ok
    /\ del.target \in del.pre.documents
DocDeletes == {p \in DOMAIN del.calls : del.calls[p].op = "doc.delete"}

\* C13: delete reports success if and only if the Document record deletion
\* succeeds: a failed index delete or record delete of a chunk never ends the
\* call, every enumerated chunk gets both deletions attempted and the
\* Document deletion is attempted after them.
C13_SuccessIffDocumentDeleted ==
    (del.pc = "done" /\ Enumerated)
    => /\ \A i \in 1..Len(del.chunks) :
             /\ Cardinality(CallsOf(del.calls, "index.delete", i)) = 1
             /\ Cardinality(CallsOf(del.calls, "chunk.delete", i)) = 1
       /\ DocDeletes = {Len(del.calls)}
       /\ del.result = "SUCCESS" <=> del.calls[Len(del.calls)].ok
       /\ del.result = "SUCCESS" <=> del.target \notin documents
C13_Witness ==
    /\ del.pc = "done" /\ Enumerated
    /\ Len(del.chunks) = 2
    /\ \E p \in CallsOf(del.calls, "index.delete", 1) : ~del.calls[p].ok
    /\ \E p \in CallsOf(del.calls, "chunk.delete", 1) : ~del.calls[p].ok
    /\ del.result = "SUCCESS"

\* C14: whatever store, index or embedding call fails, every boundary
\* operation returns a structured outcome; no raw internal error leaves
\* embed_document, search, retrieve or delete.
C14_NoRawError ==
    /\ ing.result # "RAISED"
    /\ del.result # "RAISED"
    /\ srch.result # "RAISED"
    /\ retr.result # "RAISED"

\* the delete is under way (or completed) on a Document that existed
DeletingDocument == ~Idle(del) /\ del.target \in del.pre.documents
TargetChunksLeft == {c \in chunks : c.document_id = del.target}
\* the chunk's record deletion was attempted by this delete and returned False
RecordDeleteFailed(id) ==
    \E p \in DOMAIN del.calls :
        del.calls[p].op = "chunk.delete" /\ del.calls[p].id = id /\ ~del.calls[p].ok

\* C17 as stated: at every state of a delete, every Chunk record of the target
\* still in the store references a Document record that is still present.
C17_Original ==
    DeletingDocument => (TargetChunksLeft # {} => del.target \in documents)

\* C17 amended: at every state of a delete before its last call, the Document
\* record is still present (doc.delete is issued only after the deletion of
\* every enumerated chunk has been attempted), so every Chunk record of the
\* target references a present Document; after the Document is deleted, only
\* Chunk records whose record deletion failed remain.
C17_DocumentLast ==
    DeletingDocument
    => /\ Running(del) => del.target \in documents
       /\ del.pc = "doc_delete" => del.i = Len(del.chunks) + 1
       /\ del.target \notin documents
             => /\ del.pc = "done" /\ del.result = "SUCCESS"
                /\ \A c \in TargetChunksLeft : RecordDeleteFailed(c.id)
C17_Witness ==
    /\ DeletingDocument
    /\ del.pc = "done" /\ del.result = "SUCCESS"
    /\ Cardinality(TargetChunks) = 2
    /\ Cardinality(TargetChunksLeft) = 1

\* Chunk records of a store that have no entry in an index
Degraded(table, entries) == {c \in table : c.id \notin entries}
\* a record deletion of this chunk was attempted in the log and returned False
DeleteFailedIn(calls, id) ==
    \E p \in DOMAIN calls :
        calls[p].op = "chunk.delete" /\ calls[p].id = id /\ ~calls[p].ok

\* C18 as stated: after any sequence of completed ingests and deletes, no
\* Chunk record is in the store without an index entry.
C18_Original ==
    (~Running(ing) /\ ~Running(del)) => Degraded(chunks, index) = {}

\* C18 amended: a completed ingest or delete leaves a Chunk record without an
\* index entry only if that record was already in this state when the call
\* started or the call's deletion of that record failed (the compensating
\* delete after a failed insert, or the record delete after the index delete).
C18_DegradedOnlyByFailedDelete ==
    /\ ing.pc = "done"
          => \A c \in Degraded(chunks, index) :
                \/ c \in Degraded(ing.pre.chunks, ing.pre.index)
                \/ DeleteFailedIn(ing.calls, c.id)
    /\ del.pc = "done"
          => \A c \in Degraded(chunks, index) :
                \/ c \in Degraded(del.pre.chunks, del.pre.index)
                \/ DeleteFailedIn(del.calls, c.id)
C18_Witness ==
    /\ ing.pc = "done"
    /\ \E c \in Degraded(chunks, index) :
          /\ c.document_id = ing.doc
          /\ DeleteFailedIn(ing.calls, c.id)
    /\ \E c \in chunks : c.document_id = ing.doc /\ c.id \in index

\* C20: in delete, for each chunk the index deletion is attempted before the
\* record deletion, and the record deletion is attempted also when the index
\* deletion failed.
C20_IndexThenRecord ==
    /\ \A p \in DOMAIN del.calls :
          del.calls[p].op = "chunk.delete"
             => /\ p > 1
                /\ del.calls[p - 1].op = "index.delete"
                /\ del.calls[p - 1].id = del.calls[p].id
    /\ \A p \in DOMAIN del.calls :
          (del.calls[p].op = "index.delete" /\ del.pc # "chunk_delete")
             => /\ p < Len(del.calls)
                /\ del.calls[p + 1].op = "chunk.delete"
                /\ del.calls[p + 1].id = del.calls[p].id
    /\ (del.pc = "done" /\ Enumerated)
          => \A i \in 1..Len(del.chunks) :
                \E p \in CallsOf(del.calls, "index.delete", i) :
                    del.calls[p].id = del.chunks[i].id
C20_Witness ==
    /\ del.pc = "done" /\ Enumerated
    /\ \E p \in DOMAIN del.calls :
          /\ del.calls[p].op = "index.delete" /\ ~del.calls[p].ok
          /\ del.calls[p + 1].op = "chunk.delete" /\ del.calls[p + 1].ok
          /\ del.calls[p].id \in index
          /\ del.calls[p].id \notin ChunkIds(chunks)

\* ---------------------------------------------------------------- chunker
\* a split call has returned a list
SplitReturned == chk.pc = "done" /\ chk.result = "OK"

\* C15: for every non-blank text whose token count is at most the clamped
\* target length, split returns exactly one chunk, the input text unmodified.
C15_ShortTextUnmodified ==
    (chk.pc = "done" /\ ~IsBlank(chk.text) /\ Len(encode(chk.text)) <= target_len)
    => /\ chk.result = "OK"
       /\ chk.chunks = <<chk.text>>
C15_Witness ==
    /\ SplitReturned
    /\ ~IsBlank(chk.text)
    /\ Len(encode(chk.text)) = target_len
    /\ decode(encode(chk.text)) # chk.text
    /\ chk.chunks = <<chk.text>>

\* the windows whose decode is not blank: the ones split makes chunks of
Kept(windows) ==
    LET NotBlank(w) == ~IsBlank(decode(w.window))
    IN  SelectSeq(windows, NotBlank)
\* number of token positions two windows have in common, a the earlier one
Shared(a, b) == Max(0, Min(a.start + Len(a.window), b.start + Len(b.window)) - b.start)

\* C16 as stated: each chunk covers at most target_len tokens, and every pair
\* of consecutive chunks, except the pair ending in the final chunk, shares
\* exactly `overlap` tokens.
C16_Original ==
    (SplitReturned /\ chk.windows # <<>>)
    => LET kept == Kept(chk.windows)
       IN  /\ \A i \in DOMAIN kept : Len(kept[i].window) <= target_len
           /\ \A i \in 1..(Len(kept) - 2) : Shared(kept[i], kept[i + 1]) = overlap

\* C16 amended: each chunk is the decode of a window of at most target_len
\* consecutive tokens and re-encodes to at most target_len tokens; the windows
\* start target_len - overlap apart; two consecutive windows share `overlap`
\* tokens, or the whole later window when it is shorter than that; a window
\* that decodes to blank text yields no chunk, so the chunks before and after
\* it share fewer tokens.  This is so for every chunker whose target_len is
\* at least 1; one whose target_len is 0 or less has stride = target_len and
\* makes no chunk of a non-blank text: it raises (0) or returns [] (negative).
C16_WindowsStrideApart ==
    /\ (chk.pc = "done" /\ target_len >= 1) => chk.result = "OK"
    /\ (chk.pc = "done" /\ target_len <= 0)
          => /\ chk.chunks = <<>> /\ chk.windows = <<>>
             /\ chk.result = "RAISED" <=> (target_len = 0 /\ ~IsBlank(chk.text))
    /\ (SplitReturned /\ chk.windows # <<>>)
       => LET ws == chk.windows
              kept == Kept(ws)
              n == Len(encode(chk.text))
          IN  /\ chk.chunks = [i \in DOMAIN kept |-> decode(kept[i].window)]
              /\ \A i \in DOMAIN chk.chunks : Len(encode(chk.chunks[i])) <= target_len
              /\ \A i \in DOMAIN ws :
                    /\ ws[i].start = (i - 1) * (target_len - overlap)
                    /\ Len(ws[i].window) = Min(target_len, n - ws[i].start)
                    /\ ws[i].window = SubSeq(encode(chk.text), ws[i].start + 1,
                                             ws[i].start + Len(ws[i].window))
              /\ \A i \in 1..(Len(ws) - 1) :
                    Shared(ws[i], ws[i + 1]) = Min(overlap, Len(ws[i + 1].window))
C16_Witness ==
    /\ SplitReturned
    /\ overlap >= 1
    /\ Len(chk.windows) >= 4
    /\ Len(chk.chunks) = Len(chk.windows) - 1
    /\ IsBlank(decode(chk.windows[2].window))

\* ------------------------------------------------------------ concurrency
\* an ingest and a delete of the Document that ingest created have both
\* returned, no collaborator call of either failed, the delete succeeded
RacedToCompletion ==
    /\ ing.pc = "done" /\ del.pc = "done"
    /\ ing.doc # 0 /\ del.target = ing.doc
    /\ del.result = "SUCCESS"
    /\ Failures(ing.calls) = {} /\ Failures(del.calls) = {}
\* ids of the index entries the ingest wrote
InsertedIds ==
    {ing.calls[p].id : p \in {q \in DOMAIN ing.calls : ing.calls[q].op = "index.insert"}}

\* C19: under every interleaving of an ingest with a delete of the same
\* document id, once both have returned no Chunk record and no index entry
\* remains for the deleted Document.
C19_NoLeftoverAfterRace ==
    RacedToCompletion
    => /\ \A c \in chunks : c.document_id # del.target
       /\ InsertedIds \cap index = {}

\* ------------------------------------------------- ingest, step by step
\* positions in the ingest's log of its index.insert calls
Inserts == {p \in DOMAIN ing.calls : ing.calls[p].op = "index.insert"}

\* C21: at every intermediate state of an ingest, every index entry written
\* by that ingest has its Chunk record in the store: index.insert is issued
\* only right after the successful save of that chunk, never for a chunk whose
\* save failed.
C21_InsertAfterSave ==
    ~Idle(ing)
    => /\ \A p \in Inserts :
             /\ p > 1
             /\ ing.calls[p - 1] = Call("chunk.save", ing.calls[p].k, ing.calls[p].id, TRUE)
       /\ \A p \in DOMAIN ing.calls :
             (ing.calls[p].op = "chunk.save" /\ ~ing.calls[p].ok)
                => CallsOf(ing.calls, "index.insert", ing.calls[p].k) = {}
       /\ index \ ing.pre.index = {ing.calls[p].id : p \in {q \in Inserts : ing.calls[q].ok}}
       /\ \A id \in index \ ing.pre.index :
             \E c \in chunks : c.id = id /\ c.document_id = ing.doc
C21_Witness ==
    /\ Running(ing)
    /\ \E p \in DOMAIN ing.calls : ing.calls[p].op = "chunk.save" /\ ~ing.calls[p].ok
    /\ \E p \in Inserts : ing.calls[p].ok /\ ing.calls[p].id \in index

\* Chunk records of the Document the ingest created that are in the store
IngestedChunks == {c \in chunks : c.document_id = ing.doc}

\* C22: after ingest returns, the remaining Chunk records of the ingested
\* document carry pairwise distinct positions that increase in input order,
\* 1, 2, ..., k for k remaining records, whichever chunk saves, index inserts
\* or compensating deletes failed.
C22_PositionsDistinct ==
    (ing.pc = "done" /\ ing.doc # 0)
    => /\ \A a, b \in IngestedChunks : a # b => a.position # b.position
       /\ {c.position : c \in IngestedChunks} = 1..Cardinality(IngestedChunks)
       /\ \A a, b \in IngestedChunks : a.id < b.id => a.position < b.position

\* ------------------------------------------------- chunker configuration
\* C23: for every integer pair (target_len, overlap) given to TextChunker the
\* configured values satisfy target_len <= model_max - 20,
\* 0 <= overlap <= target_len - 1 and stride = target_len - overlap >= 1, so
\* the walk of split always advances and terminates.
C23_ValidConfiguration ==
    /\ target_len <= model_max - SafetyMargin
    /\ 0 <= overlap
    /\ overlap <= target_len - 1
    /\ target_len - overlap >= 1
    /\ chk.pc = "done" => chk.result = "OK"

\* token position t (1-based) lies in window w
InWindow(t, w) == w.start < t /\ t <= w.start + Len(w.window)

\* C24: for every text longer than target_len tokens, the windows split walks
\* start at token 0, have strictly increasing start offsets, and together
\* cover every token position of the input.
C24_WindowsCoverText ==
    (chk.pc = "done" /\ Len(encode(chk.text)) >= 1
                     /\ Len(encode(chk.text)) > target_len)
    => /\ chk.result = "OK"
       /\ chk.windows # <<>>
       /\ chk.windows[1].start = 0
       /\ \A i \in 1..(Len(chk.windows) - 1) :
             chk.windows[i].start < chk.windows[i + 1].start
       /\ \A t \in 1..Len(encode(chk.text)) :
             \E i \in DOMAIN chk.windows : InWindow(t, chk.windows[i])

\* ------------------------------------------------------ ingest, then delete
\* an ingest created a Document, a delete of that Document followed it, both
\* have returned and no collaborator call of either failed
IngestedThenDeleted ==
    /\ ing.pc = "done" /\ del.pc = "done"
    /\ ing.doc # 0 /\ del.target = ing.doc
    /\ Failures(ing.calls) = {} /\ Failures(del.calls) = {}

\* C25: when no store or index call fails, ingesting a document and then
\* deleting it by its assigned id restores the record store and the vector
\* index to exactly their contents before the ingest.
C25_DeleteUndoesIngest ==
    IngestedThenDeleted
    => /\ del.result = "SUCCESS"
       /\ documents = ing.pre.documents
       /\ chunks = ing.pre.chunks
       /\ index = ing.pre.index
       /\ del.pre.documents = ing.pre.documents \cup {ing.doc}
       /\ Len(del.chunks) = ing.total_chunks
C25_Witness ==
    /\ IngestedThenDeleted
    /\ ing.result = "SUCCESS"
    /\ ing.total_chunks >= 1
    /\ ing.pre.documents # {} /\ ing.pre.chunks # {} /\ ing.pre.index # {}
    /\ del.pre.chunks # ing.pre.chunks
    /\ chunks = ing.pre.chunks

====
